---- MODULE Spec2Model ----
(***************************************************************************)
(* A model of the identity and trust code of storj:                        *)
(*   pkg/identity/identity.go   identities, persistence, TLS options       *)
(*   cmd/.../verify             the offline chain verifier (cmdVerify)      *)
(* Each component has its own variables and its own specification          *)
(* (SpecVerify, SpecIdentity, SpecTLS, SpecAuth, SpecMine): the components  *)
(* share no state, so each is checked on its own.                          *)
(***************************************************************************)
EXTENDS Integers, Sequences, FiniteSets, TLC

VARIABLES
    verifyState,    \* cmdVerify: "idle" | "loaderr" | "done"
    verifyOpts,     \* cmdVerify: checkOpts {ca, ident} once both are loaded
    verifyErrGroup, \* cmdVerify: opts.errGroup, the failures in the order added
    verifyRan,      \* cmdVerify: the checks that were run, in order
    verifyErr,      \* cmdVerify: TRUE iff the returned error is non-nil
    idFiles,        \* identity: the file system, path -> contents (or NoFile)
    idOp,           \* identity: the operation that has just returned, or "idle"
    idIn,           \* identity: the arguments of that operation
    idRet,          \* identity: what it returned, [fi, err]
    idWrites,       \* identity: the number of saves made so far
    tlsState,       \* TLS: "none" | "configured" | "failed" | "verified"
    tlsIn,          \* TLS: how the option was built: [role, pcvFuncs, id]
    tlsFuncs,       \* TLS: the functions given to VerifyPeerFunc, in order
    tlsChain,       \* TLS: the chain the peer presented (DER, as sent)
    tlsRan,         \* TLS: the functions run on it, in order, each with its outcome
    tlsErr,         \* TLS: the outcome of VerifyPeerCertificate
    tlsPeer,        \* TLS: what PeerIdentityFromPeer returned on the connection, or None
    svFiles,        \* persistence: the files, path -> content
    svState,        \* persistence: "idle" | "saved" | "backedup" | "loaded"
    svIn,           \* persistence: the call: config, identity, failures, files before
    svErr,          \* persistence: the error Save or SaveBackup returned
    svLoad,         \* persistence: what Load returned after the Save, or None
    svCalls,        \* persistence: the number of Save and SaveBackup calls so far
    hsMain,         \* noise: ClientHandshake: "idle" | "running" | "parked" | "returned"
    hsWorker,       \* noise: its goroutine: "none" | "handshaking" | "send" | "done"
    hsOutcome,      \* noise: what conn.Handshake() returned in the goroutine, or "pending"
    errChannel,     \* noise: the values buffered in errChannel
    hsSends,        \* noise: the sends the goroutine has completed
    hsCtx,          \* noise: ctx.Err(): "nil" until the context is done
    hsOrder,        \* noise: "start", "handshake" (its result is sent), "cancel", in order
    hsRet,          \* noise: what ClientHandshake returned, or None
    rawConn,        \* noise: the client's transport: "open" | "closed"
    srvIn,          \* noise: ServerHandshake: the results of its calls, or None
    srvRet,         \* noise: what ServerHandshake returned, or None
    xq,             \* XorQueue: the priorityQueue x.pq points to, as a sequence of items
    xqState,        \* XorQueue: "none" | "ready" | "panicked"
    xqOp,           \* XorQueue: the last operation: its name, argument, queue before, result
    authDB,         \* authorizations: identifier -> its tokens, [token, claimed]
    authLock,       \* authorizations: the claim holding the database, or 0
    authClaims,     \* authorizations: each claim attempt, [pc, token, result]
    mineCall,       \* mining: the arguments of the call, or None before it
    mineWorkers,    \* mining: each worker, "run" | "stopped"
    mineSlot,       \* mining: the single result slot: keys published, at most one
    mineCtx,        \* mining: TRUE once the caller's context is cancelled
    mineFirst,      \* mining: the event that came first: "none" | "success" | "cancel"
    mineRet         \* mining: what NewFullIdentity returned, or None

verifyVars == <<verifyState, verifyOpts, verifyErrGroup, verifyRan, verifyErr>>
idVars == <<idFiles, idOp, idIn, idRet, idWrites>>

tlsVars == <<tlsState, tlsIn, tlsFuncs, tlsChain, tlsRan, tlsErr, tlsPeer>>

svVars == <<svFiles, svState, svIn, svErr, svLoad, svCalls>>
noiseVars == <<hsMain, hsWorker, hsOutcome, errChannel, hsSends, hsCtx, hsOrder,
               hsRet, rawConn, srvIn, srvRet>>
xqVars == <<xq, xqState, xqOp>>
authVars == <<authDB, authLock, authClaims>>
mineVars == <<mineCall, mineWorkers, mineSlot, mineCtx, mineFirst, mineRet>>

vars == <<verifyVars, idVars, tlsVars, authVars, mineVars, svVars, noiseVars, xqVars>>

(***************************************************************************)
(* Bounds of the model.                                                    *)
(***************************************************************************)
\* the longest RestChain of a loaded CA or identity
MaxRest == 1
\* the longest certificate chain handed to FullIdentityFromPEM
MaxChain == 3
\* the number of saves (Create) in one run
MaxWrites == 1
\* the most verification functions a caller hands to ServerOption
MaxFuncs == 2
\* the most authorization tokens created
MaxTokens == 2
\* the number of claim attempts
MaxClaims == 3
\* the most mining workers (concurrency)
MaxWorkers == 2
\* the most Save and SaveBackup calls on one set of files
MaxSaves == 2
\* the most nodes in an XorQueue
MaxQueue == 3

(***************************************************************************)
(* Keys, NodeIDs and certificates.                                         *)
(***************************************************************************)
\* public keys that are *ecdsa.PublicKey
ECDSAKeys == {1, 2}
\* public keys of any other type
OtherKeys == {3}
Keys == ECDSAKeys \cup OtherKeys

None == [none |-> TRUE]

\* storj.NodeID{}: the zero value
ZeroID == 0

\* x509.MarshalPKIXPublicKey: the canonical encoding of a key
MarshalPKIXPublicKey(k) == 2 * k + 1

\* sha256.Sum256, as an injective map on the encodings the model uses
Sum256(b) == (7 * b + 2) % 17

\* NodeIDFromECDSAKey: id = sha256(sha256(pkix(k)))
NodeIDFromECDSAKey(k) ==
    LET kb  == MarshalPKIXPublicKey(k)
        mid == Sum256(kb)
        end == Sum256(mid)
    IN  [id |-> end, err |-> "nil"]

\* NodeIDFromKey: only ECDSA keys have a NodeID
NodeIDFromKey(k) ==
    IF k \in ECDSAKeys
    THEN NodeIDFromECDSAKey(k)
    ELSE [id |-> ZeroID, err |-> "ErrNodeID"]

\* An x509 certificate: its subject's public key and the key that signed it.
\* Raw is the DER form: it determines the certificate.
Cert(k, s) == [Raw |-> 10 * k + s, PublicKey |-> k, SignedBy |-> s]

CertsOver(ks) == {Cert(k, s) : k \in ks, s \in ks}

Certs == CertsOver(Keys)

\* cert.CheckSignatureFrom(parent): nil iff parent's key made cert's signature
CheckSignatureFrom(cert, parent) == cert.SignedBy = parent.PublicKey

\* all sequences over S of length lo..hi
SeqsBetween(S, lo, hi) == UNION {[1..n -> S] : n \in lo..hi}

\* append([]T{...}, rest...)
Concat(a, b) == a \o b

(***************************************************************************)
(* The chain verifier: cmdVerify and its three checks.                     *)
(***************************************************************************)
FmtContains == "identity chain must contain CA chain"
FmtIdent    == "identity chain must be valid"
FmtCA       == "CA chain must be valid"

\* errVerify.New(errFmt, ...) / errs.New(errFormat, err): one recorded failure
Failure(errFmt, kind, j, i) == [fmt |-> errFmt, kind |-> kind, j |-> j, i |-> i]

\* RestChainRaw: the Raw bytes of each certificate of a RestChain
RestChainRaw(rest) == [n \in 1..Len(rest) |-> rest[n].Raw]

\* The loop of checkIdentContainsCA over caChainBytes from (0-based) index i.
RECURSIVE ContainsLoop(_, _, _, _, _)
ContainsLoop(identChainBytes, caChainBytes, i, errFmt, group) ==
    IF i >= Len(caChainBytes) THEN group
    ELSE LET j == i + 1 IN
         IF Len(identChainBytes) = j
         THEN Append(group, Failure(errFmt, "longer", 0, 0))
         ELSE ContainsLoop(identChainBytes, caChainBytes, i + 1, errFmt,
                IF caChainBytes[i + 1] # identChainBytes[j + 1]
                THEN Append(group, Failure(errFmt, "mismatch", j, i))
                ELSE group)

\* checkIdentContainsCA: both byte chains are built with the CA's RestChainRaw
checkIdentContainsCA(opts, errFmt, group) ==
    LET identChainBytes == Concat(<<opts.ident.Leaf.Raw, opts.ident.CA.Raw>>,
                                  RestChainRaw(opts.ca.RestChain))
        caChainBytes    == Concat(<<opts.ca.Cert.Raw>>,
                                  RestChainRaw(opts.ca.RestChain))
    IN  ContainsLoop(identChainBytes, caChainBytes, 0, errFmt, group)

\* verifyChain: walks adjacent pairs from (1-based) position i; the walk ends
\* at the last certificate, and at the first pair whose signature fails.
RECURSIVE verifyChainFrom(_, _, _, _)
verifyChainFrom(chain, i, errFormat, group) ==
    IF i > Len(chain) \/ i + 1 > Len(chain) THEN group
    ELSE IF ~CheckSignatureFrom(chain[i], chain[i + 1])
         THEN Append(group, Failure(errFormat, "signature", 0, 0))
         ELSE verifyChainFrom(chain, i + 1, errFormat, group)

verifyChain(chain, errFormat, group) == verifyChainFrom(chain, 1, errFormat, group)

\* checkIdentChain: verifyChain over [Leaf, CA, ...RestChain]
checkIdentChain(opts, errFmt, group) ==
    LET identChain == Concat(<<opts.ident.Leaf, opts.ident.CA>>, opts.ident.RestChain)
    IN  verifyChain(identChain, errFmt, group)

\* checkCAChain: verifyChain over [Cert, ...RestChain]
checkCAChain(opts, errFmt, group) ==
    LET caChain == Concat(<<opts.ca.Cert>>, opts.ca.RestChain)
    IN  verifyChain(caChain, errFmt, group)

\* the checks table of cmdVerify
checks == <<FmtContains, FmtIdent, FmtCA>>

\* check.run(opts, check.errFmt)
RunCheck(errFmt, opts, group) ==
    CASE errFmt = FmtContains -> checkIdentContainsCA(opts, errFmt, group)
      [] errFmt = FmtIdent    -> checkIdentChain(opts, errFmt, group)
      [] errFmt = FmtCA       -> checkCAChain(opts, errFmt, group)

\* for _, check := range checks { check.run(opts, check.errFmt) }
RECURSIVE RunChecksFrom(_, _, _)
RunChecksFrom(n, opts, acc) ==
    IF n > Len(checks) THEN acc
    ELSE RunChecksFrom(n + 1, opts,
            [group |-> RunCheck(checks[n], opts, acc.group),
             ran   |-> Append(acc.ran, checks[n])])

\* a loop that exits at the first check that records a failure
RECURSIVE RunChecksUntilFailure(_, _, _)
RunChecksUntilFailure(n, opts, acc) ==
    IF n > Len(checks) \/ Len(acc.group) > 0 THEN acc
    ELSE RunChecksUntilFailure(n + 1, opts,
            [group |-> RunCheck(checks[n], opts, acc.group),
             ran   |-> Append(acc.ran, checks[n])])

RunChecksStopAtFirst(opts) ==
    RunChecksUntilFailure(1, opts, [group |-> <<>>, ran |-> <<>>])

RunChecks(opts) == RunChecksFrom(1, opts, [group |-> <<>>, ran |-> <<>>])

\* errs.Group.Err(): nil iff nothing was added
GroupErr(group) == Len(group) > 0

(***************************************************************************)
(* The chain codec: PEM blocks; DER certificates and keys.                 *)
(***************************************************************************)
BlockTypeCertificate == "CERTIFICATE"
BlockTypeECPrivateKey == "EC PRIVATE KEY"

\* One PEM block as the tokens of its text: BEGIN <type>, the payload, END.
Tok(tag, der) == [tag |-> tag, der |-> der]
PEMBlock(type, der) == <<Tok("BEGIN", 0), Tok(type, der), Tok("END", 0)>>

\* a token run that is no block: it decodes to nothing
Garbage == <<Tok("junk", 0)>>

\* pem.Decode in a loop: the payloads of the well-formed blocks, in the order
\* given; text that is not part of a block is skipped.
RECURSIVE pemDecodeAll(_)
pemDecodeAll(bytes) ==
    IF Len(bytes) = 0 THEN <<>>
    ELSE IF /\ Len(bytes) >= 3
            /\ bytes[1].tag = "BEGIN"
            /\ bytes[2].tag \in {BlockTypeCertificate, BlockTypeECPrivateKey}
            /\ bytes[3].tag = "END"
         THEN <<bytes[2].der>> \o pemDecodeAll(SubSeq(bytes, 4, Len(bytes)))
         ELSE pemDecodeAll(Tail(bytes))

\* decodePEM: the DER payloads; an input with no block is an error
decodePEM(bytes) ==
    LET ders == pemDecodeAll(bytes)
    IN  IF Len(ders) = 0
        THEN [ders |-> <<>>, err |-> "KeyParse"]
        ELSE [ders |-> ders, err |-> "nil"]

\* the DER form of a certificate is its Raw bytes
IsCertDER(der) == \E c \in Certs : c.Raw = der

\* x509.ParseCertificate
ParseCertificate(der) ==
    IF IsCertDER(der)
    THEN [cert |-> CHOOSE c \in Certs : c.Raw = der, err |-> "nil"]
    ELSE [cert |-> None, err |-> "CertParse"]

\* ParseCertChain: parses every block; the first corrupt one fails the whole
RECURSIVE ParseCertChain(_)
ParseCertChain(chain) ==
    IF Len(chain) = 0 THEN [chain |-> <<>>, err |-> "nil"]
    ELSE LET cp == ParseCertificate(chain[1]) IN
         IF cp.err # "nil" THEN [chain |-> <<>>, err |-> cp.err]
         ELSE LET rest == ParseCertChain(Tail(chain)) IN
              IF rest.err # "nil" THEN rest
              ELSE [chain |-> <<cp.cert>> \o rest.chain, err |-> "nil"]

\* DecodeAndParseChainPEM: split into blocks, parse each, keep the order
DecodeAndParseChainPEM(chainPEM) == ParseCertChain(pemDecodeAll(chainPEM))

\* x509.MarshalECPrivateKey: the DER form of the private key of key k
MarshalECPrivateKey(k) == 100 + k

\* x509.ParseECPrivateKey
ParseECPrivateKey(der) ==
    IF \E k \in ECDSAKeys : MarshalECPrivateKey(k) = der
    THEN [key |-> der - 100, err |-> "nil"]
    ELSE [key |-> 0, err |-> "KeyParse"]

\* peertls.WriteChain into a buffer: one certificate block per certificate
RECURSIVE EncodeChain(_)
EncodeChain(chain) ==
    IF Len(chain) = 0 THEN <<>>
    ELSE PEMBlock(BlockTypeCertificate, chain[1].Raw) \o EncodeChain(Tail(chain))

\* peertls.WriteKey into a buffer: one EC private key block
EncodeKey(k) == PEMBlock(BlockTypeECPrivateKey, MarshalECPrivateKey(k))

(***************************************************************************)
(* The identity model.                                                     *)
(***************************************************************************)
\* peertls.LeafIndex, peertls.CAIndex: positions in [Leaf, CA, ...RestChain]
\* (0-based in the code; sequences here are 1-based)
LeafIndex == 0
CAIndex == 1

NilIdentity == [nil |-> TRUE]

FullIdentity(leaf, ca, rest, id, key) ==
    [Leaf |-> leaf, CA |-> ca, RestChain |-> rest, ID |-> id, Key |-> key]

\* a NodeID taken from the leaf's key, not the CA's
ChainNodeIDFromLeaf(chain) == NodeIDFromKey(chain[LeafIndex + 1].PublicKey)

\* the NodeID of a chain: that of the key of its CA certificate
ChainNodeID(chain) == NodeIDFromKey(chain[CAIndex + 1].PublicKey)

\* a binding whose RestChain starts at the CA
BindIdentityRestFromCA(chain, key, nodeID) ==
    FullIdentity(chain[LeafIndex + 1], chain[CAIndex + 1],
                 SubSeq(chain, CAIndex + 1, Len(chain)), nodeID, key)

\* the FullIdentity literal of FullIdentityFromPEM:
\* Leaf = chain[0], CA = chain[1], RestChain = chain[2:]
BindIdentity(chain, key, nodeID) ==
    FullIdentity(chain[LeafIndex + 1], chain[CAIndex + 1],
                 SubSeq(chain, CAIndex + 2, Len(chain)), nodeID, key)

\* FullIdentityFromPEM
FullIdentityFromPEM(chainPEM, keyPEM) ==
    LET dec == DecodeAndParseChainPEM(chainPEM)
        chain == dec.chain
    IN  IF dec.err # "nil" THEN [fi |-> NilIdentity, err |-> dec.err]
        ELSE IF Len(chain) < CAIndex + 1
        THEN [fi |-> NilIdentity, err |-> "ChainLength"]
        ELSE LET keysBytes == decodePEM(keyPEM) IN
             IF keysBytes.err # "nil" THEN [fi |-> NilIdentity, err |-> keysBytes.err]
             ELSE LET key == ParseECPrivateKey(keysBytes.ders[1]) IN
                  IF key.err # "nil" THEN [fi |-> NilIdentity, err |-> "KeyParse"]
                  ELSE LET nodeID == ChainNodeID(chain) IN
                       IF nodeID.err # "nil" THEN [fi |-> NilIdentity, err |-> nodeID.err]
                       ELSE [fi  |-> BindIdentity(chain, key.key, nodeID.id),
                             err |-> "nil"]

\* A file that does not exist.
NoFile == <<Tok("ENOENT", 0)>>

\* A path as its segments between the dots, a segment being text or the
\* decimal digits of a number: "identity.cert" is <<Seg("identity"),
\* Seg("cert")>> and the empty path "" is <<Seg("")>>.
Seg(text) == [text |-> text, digits |-> <<>>]
NumSeg(digits) == [text |-> "", digits |-> digits]
EmptyPath == <<Seg("")>>

\* Config.Load: reads both files, then FullIdentityFromPEM
ConfigLoad(ic, fs) ==
    IF fs[ic.CertPath] = NoFile THEN [fi |-> NilIdentity, err |-> "ErrNotExist"]
    ELSE IF fs[ic.KeyPath] = NoFile THEN [fi |-> NilIdentity, err |-> "ErrNotExist"]
    ELSE LET r == FullIdentityFromPEM(fs[ic.CertPath], fs[ic.KeyPath]) IN
         IF r.err # "nil"
         THEN [fi |-> NilIdentity, err |-> "failed to load identity"]
         ELSE r

\* FullCAConfig.Load: a CertificateAuthority from its chain and key files:
\* Cert = chain[0], RestChain = chain[1:], ID derived from Cert's key
FullCAConfigLoad(chainPEM, keyPEM) ==
    LET dec == DecodeAndParseChainPEM(chainPEM)
        keysBytes == decodePEM(keyPEM)
    IN  IF dec.err # "nil" \/ Len(dec.chain) < 1 \/ keysBytes.err # "nil"
        THEN [ca |-> None, err |-> "load"]
        ELSE LET key == ParseECPrivateKey(keysBytes.ders[1])
                 nodeID == NodeIDFromKey(dec.chain[1].PublicKey)
             IN  IF key.err # "nil" \/ nodeID.err # "nil"
                 THEN [ca |-> None, err |-> "load"]
                 ELSE [ca  |-> [Cert |-> dec.chain[1], RestChain |-> Tail(dec.chain),
                                ID |-> nodeID.id, Key |-> key.key],
                       err |-> "nil"]

\* utils.CombineErrors: nil (the empty set) iff every argument is nil
CombineErrors(a, b) == a \cup b

\* an error value as the set of the failures it holds; {} is nil
ErrOf(e) == IF e = "nil" THEN {} ELSE {e}

\* a Save that writes the chain with the CA before the leaf
SaveCAFirst(ic, fi, fs, env) ==
    LET chain    == Concat(<<fi.CA, fi.Leaf>>, fi.RestChain)
        certData == IF env.chainEnc = "ok" THEN EncodeChain(chain) ELSE <<>>
        keyData  == IF env.keyEnc THEN <<>> ELSE EncodeKey(fi.Key)
        failed   == (IF env.chainEnc # "ok" THEN {"WriteChain"} ELSE {})
                    \cup (IF env.keyEnc THEN {"WriteKey"} ELSE {})
                    \cup (IF env.chainWrite THEN {"writeChainData"} ELSE {})
                    \cup (IF env.keyWrite THEN {"writeKeyData"} ELSE {})
        fs1 == IF ic.CertPath # EmptyPath /\ ~env.chainWrite
               THEN [fs EXCEPT ![ic.CertPath] = certData] ELSE fs
        fs2 == IF ic.KeyPath # EmptyPath /\ ~env.keyWrite
               THEN [fs1 EXCEPT ![ic.KeyPath] = keyData] ELSE fs1
    IN  [fs |-> fs2, err |-> failed]

\* Config.Save. env says which steps fail: chainEnc ("ok", or "fail0"/"fail1":
\* WriteChain fails after 0 or 1 blocks), keyEnc, chainWrite, keyWrite.
\* The data of a buffer is written even when its encoding failed; a failed
\* file write leaves the file as it was.
Save(ic, fi, fs, env) ==
    LET chain    == Concat(<<fi.Leaf, fi.CA>>, fi.RestChain)
        certData == CASE env.chainEnc = "ok"    -> EncodeChain(chain)
                      [] env.chainEnc = "fail0" -> <<>>
                      [] env.chainEnc = "fail1" -> EncodeChain(SubSeq(chain, 1, 1))
        keyData  == IF env.keyEnc THEN <<>> ELSE EncodeKey(fi.Key)
        writeChainErr     == IF ic.CertPath # EmptyPath /\ env.chainEnc # "ok"
                             THEN {"WriteChain"} ELSE {}
        writeChainDataErr == IF ic.CertPath # EmptyPath /\ env.chainWrite
                             THEN {"writeChainData"} ELSE {}
        writeKeyErr       == IF ic.KeyPath # EmptyPath /\ env.keyEnc
                             THEN {"WriteKey"} ELSE {}
        writeKeyDataErr   == IF ic.KeyPath # EmptyPath /\ env.keyWrite
                             THEN {"writeKeyData"} ELSE {}
        fs1 == IF ic.CertPath # EmptyPath /\ ~env.chainWrite
               THEN [fs EXCEPT ![ic.CertPath] = certData] ELSE fs
        fs2 == IF ic.KeyPath # EmptyPath /\ ~env.keyWrite
               THEN [fs1 EXCEPT ![ic.KeyPath] = keyData] ELSE fs1
        writeErr == CombineErrors(writeChainErr, writeKeyErr)
    IN  [fs  |-> fs2,
         err |-> IF writeErr # {} THEN writeErr
                 ELSE CombineErrors(writeChainDataErr, writeKeyDataErr)]

\* FullCertificateAuthority.NewIdentity: a fresh leaf key, a leaf certificate
\* for it signed by ca.Key, and the CA's certificate, RestChain and ID
NewIdentity(ca, leafKey, fail) ==
    IF fail THEN [fi |-> NilIdentity, err |-> {"NewIdentity"}]
    ELSE [fi  |-> FullIdentity(Cert(leafKey, ca.Key), ca.Cert, ca.RestChain,
                               ca.ID, leafKey),
          err |-> {}]

\* SetupConfig.Create: NewIdentity, then Save at the configured paths; the
\* identity is returned with whatever Save returned
Create(is, ca, fs, leafKey, fail, env) ==
    LET r == NewIdentity(ca, leafKey, fail) IN
    IF r.err # {} THEN [fi |-> NilIdentity, err |-> r.err, fs |-> fs]
    ELSE LET fi == [r.fi EXCEPT !.CA = ca.Cert]
             ic == [CertPath |-> is.CertPath, KeyPath |-> is.KeyPath]
             sv == Save(ic, fi, fs, env)
         IN  [fi |-> fi, err |-> sv.err, fs |-> sv.fs]

\* a NewFullIdentity that returns no error when NewCA failed
NewFullIdentityDropsError(caRes, leafKey, fail) ==
    IF caRes.err # {} THEN [fi |-> NilIdentity, err |-> {}]
    ELSE NewIdentity(caRes.ca, leafKey, fail)

\* NewFullIdentity: NewCA, then NewIdentity; caRes is what NewCA returned
NewFullIdentity(caRes, leafKey, fail) ==
    IF caRes.err # {} THEN [fi |-> NilIdentity, err |-> caRes.err]
    ELSE LET r == NewIdentity(caRes.ca, leafKey, fail) IN
         IF r.err # {} THEN [fi |-> NilIdentity, err |-> r.err]
         ELSE r

(***************************************************************************)
(* The identity operations as actions.                                     *)
(***************************************************************************)
\* the default paths of Config and SetupConfig
DefaultCertPath == <<Seg("identity"), Seg("cert")>>
DefaultKeyPath == <<Seg("identity"), Seg("key")>>
Paths == {DefaultCertPath, DefaultKeyPath}
DefaultConfig == [CertPath |-> DefaultCertPath, KeyPath |-> DefaultKeyPath]

\* DER payloads of chain blocks: every certificate, and a corrupt one
ChainDERs == {c.Raw : c \in Certs} \cup {0}

\* DER payloads of key files: no block, one key, two keys, a corrupt key
KeyDERs == {<<>>, <<MarshalECPrivateKey(1)>>, <<MarshalECPrivateKey(2)>>,
            <<MarshalECPrivateKey(2), MarshalECPrivateKey(1)>>, <<0>>}

RECURSIVE EncodeDERs(_, _)
EncodeDERs(type, ders) ==
    IF Len(ders) = 0 THEN <<>>
    ELSE PEMBlock(type, ders[1]) \o EncodeDERs(type, Tail(ders))

\* the certificates of the RestChain of a CA, in the identity operations
RestCerts == {Cert(1, 1), Cert(2, 1)}

\* a certificate authority as NewCA or FullCAConfig.Load returns it: the key
\* is the key of Cert, the ID is derived from it
CertificateAuthorities ==
    {[Cert |-> c, RestChain |-> r, ID |-> NodeIDFromKey(c.PublicKey).id,
      Key |-> c.PublicKey] :
        c \in CertsOver(ECDSAKeys), r \in SeqsBetween(RestCerts, 0, MaxRest)}

\* what NewCA returns: a mined self-signed root, or the cancellation error
NewCAResults ==
    {[ca |-> [Cert |-> Cert(k, k), RestChain |-> <<>>,
              ID |-> NodeIDFromKey(k).id, Key |-> k], err |-> {}] : k \in ECDSAKeys}
    \cup {[ca |-> None, err |-> {"Cancelled"}]}

SaveEnvs ==
    [chainEnc : {"ok", "fail0", "fail1"}, keyEnc : BOOLEAN,
     chainWrite : BOOLEAN, keyWrite : BOOLEAN]

\* FullIdentityFromPEM on bytes in memory (it reads no file)
FullIdentityFromPEMCall ==
    /\ idOp = "idle"
    /\ idWrites = 0
    /\ \E ders \in SeqsBetween(ChainDERs, 0, MaxChain), kders \in KeyDERs :
         LET r == FullIdentityFromPEM(EncodeDERs(BlockTypeCertificate, ders),
                                      EncodeDERs(BlockTypeECPrivateKey, kders))
         IN  /\ idOp' = "FullIdentityFromPEM"
             /\ idIn' = [ders |-> ders, kders |-> kders]
             /\ idRet' = [fi |-> r.fi, err |-> ErrOf(r.err)]
    /\ UNCHANGED <<idFiles, idWrites>>

\* Config.Load on the files as they are
LoadCall ==
    /\ idOp = "idle"
    /\ LET r == ConfigLoad(DefaultConfig, idFiles)
       IN  /\ idOp' = "Load"
           /\ idIn' = [files |-> idFiles]
           /\ idRet' = [fi |-> r.fi, err |-> ErrOf(r.err)]
    /\ UNCHANGED <<idFiles, idWrites>>

\* SetupConfig.Create
CreateCall ==
    /\ idOp = "idle"
    /\ idWrites < MaxWrites
    /\ \E ca \in CertificateAuthorities, leafKey \in ECDSAKeys,
          fail \in BOOLEAN, env \in SaveEnvs :
         LET r == Create(DefaultConfig, ca, idFiles, leafKey, fail, env)
         IN  /\ idOp' = "Create"
             /\ idIn' = [ca |-> ca]
             /\ idRet' = [fi |-> r.fi, err |-> r.err]
             /\ idFiles' = r.fs
    /\ idWrites' = idWrites + 1

\* NewFullIdentity
NewFullIdentityCall ==
    /\ idOp = "idle"
    /\ \E caRes \in NewCAResults, leafKey \in ECDSAKeys, fail \in BOOLEAN :
         LET r == NewFullIdentity(caRes, leafKey, fail)
         IN  /\ idOp' = "NewFullIdentity"
             /\ idIn' = [caRes |-> caRes]
             /\ idRet' = r
    /\ UNCHANGED <<idFiles, idWrites>>

\* the caller is done with the returned value
IdentityReturn ==
    /\ idOp # "idle"
    /\ idOp' = "idle"
    /\ idIn' = None
    /\ idRet' = [fi |-> NilIdentity, err |-> {}]
    /\ UNCHANGED <<idFiles, idWrites>>

InitIdentity ==
    /\ idFiles = [p \in Paths |-> NoFile]
    /\ idOp = "idle"
    /\ idIn = None
    /\ idRet = [fi |-> NilIdentity, err |-> {}]
    /\ idWrites = 0

(***************************************************************************)
(* The mutual-TLS credential layer: ServerOption, DialOption and the peer  *)
(* verification pipeline.                                                  *)
(***************************************************************************)
\* NodeID.String(): the digits of the id in base 58
NodeIDString(id) == <<id \div 58, id % 58>>

\* a peer verification function as a value: its name and, for
\* verifyIdentity(id), the id its closure captured
PCVFunc(fn, id) == [fn |-> fn, id |-> id]

\* PeerIdentityFromCerts: the ID is derived from the CA's key
PeerIdentityFromCerts(leaf, ca, rest) ==
    LET i == NodeIDFromKey(ca.PublicKey) IN
    IF i.err # "nil" THEN [peer |-> None, err |-> i.err]
    ELSE [peer |-> [RestChain |-> rest, CA |-> ca, ID |-> i.id, Leaf |-> leaf],
          err  |-> "nil"]

\* PeerIdentityFromPeer: c is tlsInfo.State.PeerCertificates
PeerIdentityFromPeer(c) ==
    IF Len(c) < 2 THEN [peer |-> None, err |-> "invalid certificate chain"]
    ELSE PeerIdentityFromCerts(c[LeafIndex + 1], c[CAIndex + 1], SubSeq(c, 3, Len(c)))

\* a pinning check with no test for the zero id
verifyIdentityAlwaysCompares(id, parsedChain) ==
    IF Len(parsedChain) < 2 THEN "panic"
    ELSE LET p == PeerIdentityFromCerts(parsedChain[1], parsedChain[2],
                                        SubSeq(parsedChain, 3, Len(parsedChain)))
         IN  IF p.err # "nil" THEN p.err
             ELSE IF NodeIDString(p.peer.ID) # NodeIDString(id)
             THEN "peer ID did not match requested ID"
             ELSE "nil"

\* the function verifyIdentity(id) returns, applied to parsedChains[0]:
\* indexing parsedChains[0][1] or slicing [2:] past the end panics
verifyIdentity(id, parsedChain) ==
    IF id = ZeroID THEN "nil"
    ELSE IF Len(parsedChain) < 2 THEN "panic"
    ELSE LET p == PeerIdentityFromCerts(parsedChain[1], parsedChain[2],
                                        SubSeq(parsedChain, 3, Len(parsedChain)))
         IN  IF p.err # "nil" THEN p.err
             ELSE IF NodeIDString(p.peer.ID) # NodeIDString(id)
             THEN "peer ID did not match requested ID"
             ELSE "nil"

\* peertls.VerifyPeerCertChains: every certificate is signed by the next
\* one, and the last one is a self-signed root
VerifyPeerCertChains(parsedChain) ==
    IF /\ \A i \in 1..(Len(parsedChain) - 1) :
             CheckSignatureFrom(parsedChain[i], parsedChain[i + 1])
       /\ Len(parsedChain) > 0
             => CheckSignatureFrom(parsedChain[Len(parsedChain)],
                                   parsedChain[Len(parsedChain)])
    THEN "nil"
    ELSE "ErrVerifyPeerCert"

\* one verification function applied to the parsed chain
ApplyPCV(f, parsedChain) ==
    CASE f.fn = "VerifyPeerCertChains" -> VerifyPeerCertChains(parsedChain)
      [] f.fn = "verifyIdentity"       -> verifyIdentity(f.id, parsedChain)
      [] f.fn = "accept"               -> "nil"
      [] f.fn = "reject"               -> "rejected"

\* the loop of peertls.VerifyPeerFunc: the functions in order, stopping at
\* the first that does not return nil
RECURSIVE VerifyPeerLoop(_, _, _, _)
VerifyPeerLoop(funcs, n, parsedChain, ran) ==
    IF n > Len(funcs) THEN [ran |-> ran, err |-> "nil"]
    ELSE LET out == ApplyPCV(funcs[n], parsedChain)
             log == Append(ran, [fn |-> funcs[n].fn, id |-> funcs[n].id, out |-> out])
         IN  IF out # "nil" THEN [ran |-> log, err |-> out]
             ELSE VerifyPeerLoop(funcs, n + 1, parsedChain, log)

\* peertls.VerifyPeerFunc(funcs...): parse the raw chain once, then the loop
VerifyPeerFunc(funcs, rawChain) ==
    LET parsed == ParseCertChain(rawChain) IN
    IF parsed.err # "nil" THEN [ran |-> <<>>, err |-> parsed.err]
    ELSE VerifyPeerLoop(funcs, 1, parsed.chain, <<>>)

\* a list built with the caller's functions first
ServerOptionFuncsAppended(pcvFuncs) ==
    Concat(pcvFuncs, <<PCVFunc("VerifyPeerCertChains", ZeroID)>>)

\* ServerOption: VerifyPeerCertChains, then the caller's functions
ServerOptionFuncs(pcvFuncs) ==
    Concat(<<PCVFunc("VerifyPeerCertChains", ZeroID)>>, pcvFuncs)

\* DialOption: VerifyPeerCertChains, then verifyIdentity(id)
DialOptionFuncs(id) ==
    <<PCVFunc("VerifyPeerCertChains", ZeroID), PCVFunc("verifyIdentity", id)>>

\* the NodeIDs a caller pins: none (the zero id), the id of each ECDSA key,
\* and an id no peer has
PinIDs == {ZeroID} \cup {NodeIDFromKey(k).id : k \in ECDSAKeys}
                  \cup {Sum256(Sum256(MarshalPKIXPublicKey(3)))}

\* the verification functions a caller hands to ServerOption
CustomFuncs ==
    {PCVFunc("accept", ZeroID), PCVFunc("reject", ZeroID),
     PCVFunc("verifyIdentity", NodeIDFromKey(1).id)}

\* FullIdentity.ServerOption(pcvFuncs...); certFail: peertls.TLSCert fails
ServerOptionCall ==
    /\ tlsState = "none"
    /\ \E pcvFuncs \in SeqsBetween(CustomFuncs, 0, MaxFuncs), certFail \in BOOLEAN :
         /\ tlsIn' = [role |-> "server", pcvFuncs |-> pcvFuncs, id |-> ZeroID]
         /\ IF certFail
            THEN tlsState' = "failed" /\ tlsFuncs' = <<>>
            ELSE tlsState' = "configured" /\ tlsFuncs' = ServerOptionFuncs(pcvFuncs)
    /\ UNCHANGED <<tlsChain, tlsRan, tlsErr, tlsPeer>>

\* FullIdentity.DialOption(id); certFail: peertls.TLSCert fails
DialOptionCall ==
    /\ tlsState = "none"
    /\ \E id \in PinIDs, certFail \in BOOLEAN :
         /\ tlsIn' = [role |-> "client", pcvFuncs |-> <<>>, id |-> id]
         /\ IF certFail
            THEN tlsState' = "failed" /\ tlsFuncs' = <<>>
            ELSE tlsState' = "configured" /\ tlsFuncs' = DialOptionFuncs(id)
    /\ UNCHANGED <<tlsChain, tlsRan, tlsErr, tlsPeer>>

\* a handshake: the peer presents a chain of at least one certificate and
\* tls runs VerifyPeerCertificate on it
PeerHandshake ==
    /\ tlsState = "configured"
    /\ \E chain \in SeqsBetween(Certs, 1, MaxChain) :
         LET raw == RestChainRaw(chain)
             r   == VerifyPeerFunc(tlsFuncs, raw)
         IN  /\ tlsChain' = raw
             /\ tlsRan' = r.ran
             /\ tlsErr' = r.err
    /\ tlsState' = "verified"
    /\ UNCHANGED <<tlsIn, tlsFuncs, tlsPeer>>

\* PeerIdentityFromPeer(peer) on a connection whose handshake succeeded
PeerIdentityFromPeerCall ==
    /\ tlsState = "verified"
    /\ tlsErr = "nil"
    /\ tlsPeer = None
    /\ tlsPeer' = PeerIdentityFromPeer(ParseCertChain(tlsChain).chain)
    /\ UNCHANGED <<tlsState, tlsIn, tlsFuncs, tlsChain, tlsRan, tlsErr>>

\* the connection ends; the configuration serves the next one
ConnectionDone ==
    /\ tlsState = "verified"
    /\ tlsState' = "configured"
    /\ tlsChain' = <<>>
    /\ tlsRan' = <<>>
    /\ tlsErr' = "nil"
    /\ tlsPeer' = None
    /\ UNCHANGED <<tlsIn, tlsFuncs>>

InitTLS ==
    /\ tlsState = "none"
    /\ tlsIn = None
    /\ tlsFuncs = <<>>
    /\ tlsChain = <<>>
    /\ tlsRan = <<>>
    /\ tlsErr = "nil"
    /\ tlsPeer = None

(***************************************************************************)
(* The authorization database: Create and Claim.                           *)
(***************************************************************************)
Identifiers == {"user@example.com", "other@example.com"}
Claimers == 1..MaxClaims

\* every token of the database, with its state
AllAuths == UNION {{authDB[u][n] : n \in 1..Len(authDB[u])} : u \in Identifiers}
AllTokens == {a.token : a \in AllAuths}
IsClaimed(t) == \E a \in AllAuths : a.token = t /\ a.claimed

\* a fresh token value: unique in the database
NewToken(n) == Cardinality(AllTokens) + n

\* a database that any claim may enter at any time
MayEnterUnlocked(c) == TRUE

\* the database is entered by one mutating operation at a time
MayEnter(c) == authLock = 0

\* AuthorizationDB.Create(identifier, count): appends count open tokens
AuthCreate ==
    /\ MayEnter(0)
    /\ \E u \in Identifiers, count \in 1..MaxTokens :
         /\ Cardinality(AllTokens) + count <= MaxTokens
         /\ authDB' = [authDB EXCEPT ![u] =
               @ \o [n \in 1..count |-> [token |-> NewToken(n), claimed |-> FALSE]]]
    /\ UNCHANGED <<authLock, authClaims>>

\* a claim attempt on a token arrives
ClaimStart(c) ==
    /\ authClaims[c].pc = "idle"
    /\ \E t \in AllTokens :
         authClaims' = [authClaims EXCEPT ![c] = [pc |-> "waiting", token |-> t,
                                                  result |-> "none"]]
    /\ UNCHANGED <<authDB, authLock>>

\* Claim enters the database
ClaimEnter(c) ==
    /\ authClaims[c].pc = "waiting"
    /\ MayEnter(c)
    /\ authLock' = c
    /\ authClaims' = [authClaims EXCEPT ![c].pc = "check"]
    /\ UNCHANGED authDB

\* Claim reads the token: a claimed token fails the attempt with AlreadyClaimed
ClaimCheck(c) ==
    /\ authClaims[c].pc = "check"
    /\ IF IsClaimed(authClaims[c].token)
       THEN /\ authClaims' = [authClaims EXCEPT ![c].pc = "done",
                                                ![c].result = "AlreadyClaimed"]
            /\ authLock' = IF authLock = c THEN 0 ELSE authLock
       ELSE /\ authClaims' = [authClaims EXCEPT ![c].pc = "set"]
            /\ UNCHANGED authLock
    /\ UNCHANGED authDB

\* Claim writes the token back as claimed and leaves the database
ClaimSet(c) ==
    /\ authClaims[c].pc = "set"
    /\ authDB' = [u \in Identifiers |->
          [n \in 1..Len(authDB[u]) |->
             IF authDB[u][n].token = authClaims[c].token
             THEN [authDB[u][n] EXCEPT !.claimed = TRUE]
             ELSE authDB[u][n]]]
    /\ authClaims' = [authClaims EXCEPT ![c].pc = "done", ![c].result = "ok"]
    /\ authLock' = IF authLock = c THEN 0 ELSE authLock

InitAuth ==
    /\ authDB = [u \in Identifiers |-> <<>>]
    /\ authLock = 0
    /\ authClaims = [c \in Claimers |-> [pc |-> "idle", token |-> 0, result |-> "none"]]

(***************************************************************************)
(* The difficulty miner (NewCA) under NewFullIdentity.                     *)
(***************************************************************************)
\* the bits of a NodeID, as the model's hash yields it
IDBits == 5

RECURSIVE Pow2(_)
Pow2(n) == IF n = 0 THEN 1 ELSE 2 * Pow2(n - 1)

\* the difficulty predicate: at least difficulty leading zero bits
MeetsDifficulty(id, difficulty) == id < Pow2(IDBits - difficulty)

Difficulties == 0..3
Workers == 1..MaxWorkers

\* the self-signed root a worker makes of the key it found
MinedCA(k) == [Cert |-> Cert(k, k), RestChain |-> <<>>,
               ID |-> NodeIDFromKey(k).id, Key |-> k]

\* NewFullIdentity(ctx, difficulty, concurrency) is called: NewCA starts
\* its workers
MineStart ==
    /\ mineCall = None
    /\ \E difficulty \in Difficulties, concurrency \in 1..MaxWorkers :
         /\ mineCall' = [difficulty |-> difficulty, concurrency |-> concurrency]
         /\ mineWorkers' = [w \in Workers |->
                              IF w <= concurrency THEN "run" ELSE "stopped"]
    /\ UNCHANGED <<mineSlot, mineCtx, mineFirst, mineRet>>

\* a worker's attempt: a fresh key; if its NodeID meets the difficulty the
\* worker publishes its root into the slot, unless the slot is taken or the
\* call was cancelled, and stops; otherwise it tries again
WorkerAttempt(w) ==
    /\ mineCall # None
    /\ mineWorkers[w] = "run"
    /\ \E k \in ECDSAKeys :
         IF MeetsDifficulty(NodeIDFromKey(k).id, mineCall.difficulty)
         THEN /\ mineWorkers' = [mineWorkers EXCEPT ![w] = "stopped"]
              /\ IF mineFirst = "none"
                 THEN mineSlot' = <<k>> /\ mineFirst' = "success"
                 ELSE UNCHANGED <<mineSlot, mineFirst>>
         ELSE UNCHANGED <<mineWorkers, mineSlot, mineFirst>>
    /\ UNCHANGED <<mineCall, mineCtx, mineRet>>

\* a worker sees the cancellation (the caller's, or the one issued for the
\* first success) and stops
WorkerSeesCancel(w) ==
    /\ mineCall # None
    /\ mineWorkers[w] = "run"
    /\ mineFirst # "none"
    /\ mineWorkers' = [mineWorkers EXCEPT ![w] = "stopped"]
    /\ UNCHANGED <<mineCall, mineSlot, mineCtx, mineFirst, mineRet>>

\* the caller cancels the context
ExternalCancel ==
    /\ mineCall # None
    /\ ~mineCtx
    /\ mineCtx' = TRUE
    /\ mineFirst' = IF mineFirst = "none" THEN "cancel" ELSE mineFirst
    /\ UNCHANGED <<mineCall, mineWorkers, mineSlot, mineRet>>

\* what NewCA returns once an event has come
NewCAResult ==
    IF mineFirst = "success"
    THEN [ca |-> MinedCA(mineSlot[1]), err |-> {}]
    ELSE [ca |-> None, err |-> {"Cancelled"}]

\* NewCA returns and NewFullIdentity goes on to NewIdentity and returns
NewFullIdentityReturn ==
    /\ mineCall # None
    /\ mineRet = None
    /\ mineFirst # "none"
    /\ \E leafKey \in ECDSAKeys, fail \in BOOLEAN :
         mineRet' = NewFullIdentity(NewCAResult, leafKey, fail)
    /\ UNCHANGED <<mineCall, mineWorkers, mineSlot, mineCtx, mineFirst>>

InitMine ==
    /\ mineCall = None
    /\ mineWorkers = [w \in Workers |-> "stopped"]
    /\ mineSlot = <<>>
    /\ mineCtx = FALSE
    /\ mineFirst = "none"
    /\ mineRet = None

(***************************************************************************)
(* Persistence: Config.Save, Config.SaveBackup and Config.Load on files.   *)
(***************************************************************************)
\* strconv.Itoa: the decimal digits of n
RECURSIVE Itoa(_)
Itoa(n) == IF n < 10 THEN <<n>> ELSE Append(Itoa(n \div 10), n % 10)

\* filepath.Ext: the suffix from the last dot on, or nothing without a dot
Ext(path) == IF Len(path) >= 2 THEN <<path[Len(path)]>> ELSE <<>>

\* strings.TrimSuffix(path, ext), ext being a suffix of path
TrimSuffix(path, ext) == SubSeq(path, 1, Len(path) - Len(ext))

\* a backup path with the timestamp after the extension
backupPathAppended(path, now) == Append(path, NumSeg(Itoa(now)))

\* backupPath: fmt.Sprintf("%s.%s%s", base, Itoa(now), pathExt), now being
\* time.Now().Unix()
backupPath(path, now) ==
    Concat(Append(TrimSuffix(path, Ext(path)), NumSeg(Itoa(now))), Ext(path))

\* Config.SaveBackup: Save under a Config that holds only the backup path
SaveBackup(ic, fi, fs, env, now) ==
    Save([CertPath |-> backupPath(ic.CertPath, now), KeyPath |-> EmptyPath],
         fi, fs, env)

\* the values of time.Now().Unix()
Times == {7, 12}

\* the certificate and key paths of a Config: unset, the defaults, a path
\* with no extension, and the key at the certificate's path
CertPaths == {EmptyPath, DefaultCertPath, <<Seg("identity")>>}
KeyPaths == {EmptyPath, DefaultKeyPath, DefaultCertPath}
Configs == [CertPath : CertPaths, KeyPath : KeyPaths]

\* every path the persistence operations can touch
SavePaths ==
    CertPaths \cup KeyPaths \cup {backupPath(p, t) : p \in CertPaths, t \in Times}

\* the identities handed to Save: as NewIdentity issues them under a CA
\* with and without a RestChain
SaveIdentities ==
    {NewIdentity([Cert |-> Cert(1, 1), RestChain |-> <<>>,
                  ID |-> NodeIDFromKey(1).id, Key |-> 1], 2, FALSE).fi,
     NewIdentity([Cert |-> Cert(2, 1), RestChain |-> <<Cert(1, 1)>>,
                  ID |-> NodeIDFromKey(2).id, Key |-> 2], 1, FALSE).fi}

\* the failures that can happen under a Config: a step that is not run
\* (its path is empty) does not fail
SaveEnvsFor(ic) ==
    {env \in SaveEnvs :
       /\ ic.CertPath = EmptyPath => (env.chainEnc = "ok" /\ ~env.chainWrite)
       /\ ic.KeyPath = EmptyPath => (~env.keyEnc /\ ~env.keyWrite)}

\* ic.Save(fi)
SaveCall ==
    /\ svState = "idle"
    /\ svCalls < MaxSaves
    /\ \E ic \in Configs, fi \in SaveIdentities :
       \E env \in SaveEnvsFor(ic) :
         LET r == Save(ic, fi, svFiles, env)
         IN  /\ svFiles' = r.fs
             /\ svErr' = r.err
             /\ svIn' = [ic |-> ic, fi |-> fi, env |-> env, now |-> 0,
                         before |-> svFiles]
    /\ svState' = "saved"
    /\ svCalls' = svCalls + 1
    /\ UNCHANGED svLoad

\* ic.SaveBackup(fi)
SaveBackupCall ==
    /\ svState = "idle"
    /\ svCalls < MaxSaves
    /\ \E ic \in Configs, fi \in SaveIdentities, now \in Times :
       \E env \in SaveEnvsFor([CertPath |-> backupPath(ic.CertPath, now),
                               KeyPath |-> EmptyPath]) :
         LET r == SaveBackup(ic, fi, svFiles, env, now)
         IN  /\ svFiles' = r.fs
             /\ svErr' = r.err
             /\ svIn' = [ic |-> ic, fi |-> fi, env |-> env, now |-> now,
                         before |-> svFiles]
    /\ svState' = "backedup"
    /\ svCalls' = svCalls + 1
    /\ UNCHANGED svLoad

\* ic.Load() with the Config of the Save that just returned
LoadAfterSave ==
    /\ svState = "saved"
    /\ svLoad' = ConfigLoad(svIn.ic, svFiles)
    /\ svState' = "loaded"
    /\ UNCHANGED <<svFiles, svIn, svErr, svCalls>>

\* the caller is done with the returned values; the files stay
SaveDone ==
    /\ svState # "idle"
    /\ svState' = "idle"
    /\ svIn' = None
    /\ svErr' = {}
    /\ svLoad' = None
    /\ UNCHANGED <<svFiles, svCalls>>

InitSave ==
    /\ svFiles = [p \in SavePaths |-> NoFile]
    /\ svState = "idle"
    /\ svIn = None
    /\ svErr = {}
    /\ svLoad = None
    /\ svCalls = 0

(***************************************************************************)
(* The noise credentials: ClientHandshake and ServerHandshake.             *)
(***************************************************************************)
\* what conn.Handshake() returns: nil, mint.AlertNoAlert, or another error
HandshakeOutcomes == {"nil", "AlertNoAlert", "handshake failed"}

\* what ctx.Err() is once the context is done
CtxErrors == {"Canceled", "DeadlineExceeded"}

\* a returned connection: the noise conn, or nil
NilConn == "nil"
NoiseConn == "conn"

\* the errChannel case of the select in ClientHandshake, which falls through
\* to the final return unless err is neither nil nor AlertNoAlert
ClientResult(err) ==
    IF err # "nil" /\ err # "AlertNoAlert"
    THEN [conn |-> NilConn, err |-> err]
    ELSE [conn |-> NoiseConn, err |-> "nil"]

\* the ctx.Done() case of the select
ClientCancelled(ctxErr) == [conn |-> NilConn, err |-> ctxErr]

\* ServerHandshake: err is what conn.Handshake() returned, staticKeyErr
\* what conn.StaticKey() returns
ServerHandshake(err, staticKeyErr) ==
    IF err # "AlertNoAlert" THEN [conn |-> NilConn, err |-> err]
    ELSE IF staticKeyErr # "nil" THEN [conn |-> NoiseConn, err |-> staticKeyErr]
    ELSE [conn |-> NoiseConn, err |-> "nil"]

\* a send on a channel with no buffer: only to a receiver that waits
CanSendUnbuffered(buffered) == hsMain = "parked"

\* errChannel is made with room for one value: a send goes through when a
\* receiver waits or the buffer has room
CanSend(buffered) == hsMain = "parked" \/ Len(buffered) < 1

\* the context is done (cancelled, or its deadline passed); a ClientHandshake
\* parked in its select takes the ctx.Done() case and returns
CtxDone ==
    /\ hsCtx = "nil"
    /\ \E e \in CtxErrors : hsCtx' = e
    /\ hsOrder' = Append(hsOrder, "cancel")
    /\ IF hsMain = "parked"
       THEN hsMain' = "returned" /\ hsRet' = ClientCancelled(hsCtx')
       ELSE UNCHANGED <<hsMain, hsRet>>
    /\ UNCHANGED <<hsWorker, hsOutcome, errChannel, hsSends, rawConn, srvIn, srvRet>>

\* ClientHandshake up to its select: the conn is made, errChannel is made,
\* the goroutine is started and calls conn.Handshake()
ClientHandshakeStart ==
    /\ hsMain = "idle"
    /\ hsMain' = "running"
    /\ hsWorker' = "handshaking"
    /\ hsOrder' = Append(hsOrder, "start")
    /\ UNCHANGED <<hsOutcome, errChannel, hsSends, hsCtx, hsRet, rawConn, srvIn, srvRet>>

\* conn.Handshake() returns in the goroutine
HandshakeReturns ==
    /\ hsWorker = "handshaking"
    /\ \E o \in HandshakeOutcomes : hsOutcome' = o
    /\ hsWorker' = "send"
    /\ UNCHANGED <<hsMain, errChannel, hsSends, hsCtx, hsOrder, hsRet, rawConn,
                   srvIn, srvRet>>

\* errChannel <- err in the goroutine; a ClientHandshake parked in its
\* select receives the value and returns, otherwise the value is buffered
WorkerSend ==
    /\ hsWorker = "send"
    /\ CanSend(errChannel)
    /\ hsWorker' = "done"
    /\ hsSends' = hsSends + 1
    /\ hsOrder' = Append(hsOrder, "handshake")
    /\ IF hsMain = "parked"
       THEN /\ hsMain' = "returned"
            /\ hsRet' = ClientResult(hsOutcome)
            /\ UNCHANGED errChannel
       ELSE /\ errChannel' = Append(errChannel, hsOutcome)
            /\ UNCHANGED <<hsMain, hsRet>>
    /\ UNCHANGED <<hsOutcome, hsCtx, rawConn, srvIn, srvRet>>

\* ClientHandshake reaches its select: with one case ready it takes it, with
\* both ready it takes either, with none it parks
ClientSelect ==
    /\ hsMain = "running"
    /\ \/ /\ errChannel # <<>>
          /\ hsMain' = "returned"
          /\ hsRet' = ClientResult(Head(errChannel))
          /\ errChannel' = Tail(errChannel)
       \/ /\ hsCtx # "nil"
          /\ hsMain' = "returned"
          /\ hsRet' = ClientCancelled(hsCtx)
          /\ UNCHANGED errChannel
       \/ /\ errChannel = <<>>
          /\ hsCtx = "nil"
          /\ hsMain' = "parked"
          /\ UNCHANGED <<hsRet, errChannel>>
    /\ UNCHANGED <<hsWorker, hsOutcome, hsSends, hsCtx, hsOrder, rawConn, srvIn, srvRet>>

\* ServerHandshake(rawConn)
ServerHandshakeCall ==
    /\ srvRet = None
    /\ \E err \in HandshakeOutcomes, staticKeyErr \in {"nil", "no static key"} :
         /\ srvIn' = [err |-> err, staticKeyErr |-> staticKeyErr]
         /\ srvRet' = ServerHandshake(err, staticKeyErr)
    /\ UNCHANGED <<hsMain, hsWorker, hsOutcome, errChannel, hsSends, hsCtx, hsOrder,
                   hsRet, rawConn>>

InitNoise ==
    /\ hsMain = "idle"
    /\ hsWorker = "none"
    /\ hsOutcome = "pending"
    /\ errChannel = <<>>
    /\ hsSends = 0
    /\ hsCtx = "nil"
    /\ hsOrder = <<>>
    /\ hsRet = None
    /\ rawConn = "open"
    /\ srvIn = None
    /\ srvRet = None

(***************************************************************************)
(* kademlia XorQueue: a priority queue on container/heap.                  *)
(* Go indexes from 0; At(pq, i) is the item Go calls pq[i].                *)
(***************************************************************************)
\* the values of one byte of an id, and ids as byte strings of two bytes
ByteValues == 0..1
NodeIDs == {<<a, b>> : a \in ByteValues, b \in ByteValues}

\* big.Int.SetBytes: the bytes as a big-endian unsigned number
RECURSIVE SetBytes(_)
SetBytes(bytes) ==
    IF Len(bytes) = 0 THEN 0
    ELSE (SetBytes(SubSeq(bytes, 1, Len(bytes) - 1)) * Cardinality(ByteValues))
         + bytes[Len(bytes)]

\* big.Int.Xor
RECURSIVE Xor(_, _)
Xor(a, b) ==
    IF a = 0 /\ b = 0 THEN 0
    ELSE (((a % 2) + (b % 2)) % 2) + 2 * Xor(a \div 2, b \div 2)

\* the priority of a node: target XOR the node's id
Priority(node, target) == Xor(SetBytes(target), SetBytes(node))

At(pq, i) == pq[i + 1]

\* a comparison that puts the farthest first
LessFarthest(pq, i, j) == At(pq, i).priority > At(pq, j).priority

\* priorityQueue.Less
Less(pq, i, j) == At(pq, i).priority < At(pq, j).priority

\* priorityQueue.Swap
Swap(pq, i, j) ==
    [n \in 1..Len(pq) |->
        IF n = j + 1 THEN [At(pq, i) EXCEPT !.index = j]
        ELSE IF n = i + 1 THEN [At(pq, j) EXCEPT !.index = i]
        ELSE pq[n]]

\* priorityQueue.Push
Push(pq, x) == Append(pq, [x EXCEPT !.index = Len(pq)])

\* priorityQueue.Pop: the last item, with index -1
Pop(pq) ==
    [pq   |-> SubSeq(pq, 1, Len(pq) - 1),
     item |-> [pq[Len(pq)] EXCEPT !.index = -1]]

\* heap.up
RECURSIVE up(_, _)
up(h, j) ==
    LET i == IF j = 0 THEN 0 ELSE (j - 1) \div 2
    IN  IF i = j \/ ~Less(h, j, i) THEN h
        ELSE up(Swap(h, i, j), i)

\* heap.down
RECURSIVE down(_, _, _)
down(h, i, n) ==
    LET j1 == 2 * i + 1 IN
    IF j1 >= n THEN h
    ELSE LET j2 == j1 + 1
             j  == IF j2 < n /\ Less(h, j2, j1) THEN j2 ELSE j1
         IN  IF ~Less(h, j, i) THEN h
             ELSE down(Swap(h, i, j), j, n)

\* heap.Init: down from n/2 - 1 to 0
RECURSIVE heapInitFrom(_, _)
heapInitFrom(h, i) ==
    IF i < 0 THEN h ELSE heapInitFrom(down(h, i, Len(h)), i - 1)

heapInit(h) == heapInitFrom(h, Len(h) \div 2 - 1)

\* heap.Push
heapPush(h, x) == up(Push(h, x), Len(h))

\* heap.Pop on a queue that is not empty
heapPop(h) ==
    LET n == Len(h) - 1
    IN  Pop(down(Swap(h, 0, n), 0, n))

\* NewXorQueue(nodes, target)
NewXorQueue(nodes, target) ==
    heapInit([i \in 1..Len(nodes) |->
                [value |-> nodes[i], priority |-> Priority(nodes[i], target),
                 index |-> i - 1]])

\* XorQueue.Insert(node, target)
Insert(pq, node, target) ==
    heapPush(pq, [value |-> node, priority |-> Priority(node, target), index |-> 0])

\* XorQueue.PopClosest
PopClosest(pq) == heapPop(pq)

\* the loop of Resize: up to k items popped from the old queue and pushed
\* onto the new one
RECURSIVE ResizeLoop(_, _, _, _)
ResizeLoop(oldPq, newPq, i, k) ==
    IF i < k /\ Len(oldPq) > 0
    THEN LET p == heapPop(oldPq)
         IN  ResizeLoop(p.pq, heapPush(newPq, p.item), i + 1, k)
    ELSE newPq

\* XorQueue.Resize(k)
Resize(pq, k) == heapInit(ResizeLoop(pq, <<>>, 0, k))

\* the targets handed to NewXorQueue and Insert
Targets == {<<0, 1>>, <<1, 0>>}

NewXorQueueCall ==
    /\ xqState = "none"
    /\ \E nodes \in SeqsBetween(NodeIDs, 0, MaxQueue), target \in Targets :
         /\ xq' = NewXorQueue(nodes, target)
         /\ xqOp' = [op |-> "NewXorQueue", before |-> <<>>, k |-> 0, item |-> None]
    /\ xqState' = "ready"

InsertCall ==
    /\ xqState = "ready"
    /\ Len(xq) < MaxQueue
    /\ \E node \in NodeIDs, target \in Targets :
         /\ xq' = Insert(xq, node, target)
         /\ xqOp' = [op |-> "Insert", before |-> xq, k |-> 0, item |-> None]
    /\ UNCHANGED xqState

\* PopClosest; on an empty queue heap.Pop indexes h[-1] and panics
PopClosestCall ==
    /\ xqState = "ready"
    /\ IF Len(xq) = 0
       THEN /\ xqState' = "panicked"
            /\ xqOp' = [op |-> "PopClosest", before |-> xq, k |-> 0, item |-> None]
            /\ UNCHANGED xq
       ELSE LET p == PopClosest(xq)
            IN  /\ xq' = p.pq
                /\ xqOp' = [op |-> "PopClosest", before |-> xq, k |-> 0,
                            item |-> p.item]
                /\ UNCHANGED xqState

ResizeCall ==
    /\ xqState = "ready"
    /\ \E k \in 0..(MaxQueue + 1) :
         /\ xq' = Resize(xq, k)
         /\ xqOp' = [op |-> "Resize", before |-> xq, k |-> k, item |-> None]
    /\ UNCHANGED xqState

InitXorQueue ==
    /\ xq = <<>>
    /\ xqState = "none"
    /\ xqOp = None

(***************************************************************************)
(* cmdVerify, the verify command.                                          *)
(***************************************************************************)
\* the certificates of the chains the verify command is run on
VerifyCerts == CertsOver(ECDSAKeys)

\* contents of the CA's chain and key files (the last one fails to load)
VerifyCAFiles ==
    {[cert |-> EncodeChain(c), key |-> EncodeKey(c[1].PublicKey)] :
        c \in SeqsBetween(VerifyCerts, 1, 1 + MaxRest)}
    \cup {[cert |-> Garbage, key |-> EncodeKey(1)]}

\* contents of the identity's chain and key files (the last one fails to load)
VerifyIdentFiles ==
    {[cert |-> EncodeChain(c), key |-> EncodeKey(1)] :
        c \in SeqsBetween(VerifyCerts, 2, 2 + MaxRest)}
    \cup {[cert |-> EncodeChain(<<Cert(1, 1)>>), key |-> EncodeKey(1)]}

\* cmdVerify: load the CA, load the identity, run the checks, return the
\* error of the group
cmdVerify ==
    /\ verifyState = "idle"
    /\ \E caFiles \in VerifyCAFiles, identFiles \in VerifyIdentFiles :
         LET ca    == FullCAConfigLoad(caFiles.cert, caFiles.key)
             ident == ConfigLoad([CertPath |-> "cert", KeyPath |-> "key"],
                                 [p \in {"cert", "key"} |->
                                    IF p = "cert" THEN identFiles.cert ELSE identFiles.key])
         IN  IF ca.err # "nil" \/ ident.err # "nil"
             THEN /\ verifyState' = "loaderr"
                  /\ verifyErr' = TRUE
                  /\ UNCHANGED <<verifyOpts, verifyErrGroup, verifyRan>>
             ELSE LET opts == [ca |-> ca.ca, ident |-> ident.fi]
                      run  == RunChecks(opts)
                  IN  /\ verifyState' = "done"
                      /\ verifyOpts' = opts
                      /\ verifyErrGroup' = run.group
                      /\ verifyRan' = run.ran
                      /\ verifyErr' = GroupErr(run.group)
    /\ UNCHANGED <<idVars, tlsVars, authVars, mineVars, svVars, noiseVars, xqVars>>

InitVerify ==
    /\ verifyState = "idle"
    /\ verifyOpts = None
    /\ verifyErrGroup = <<>>
    /\ verifyRan = <<>>
    /\ verifyErr = FALSE

Init ==
    /\ InitVerify /\ InitIdentity /\ InitTLS /\ InitAuth /\ InitMine /\ InitSave
    /\ InitNoise /\ InitXorQueue

NextVerify == cmdVerify

SpecVerify == Init /\ [][NextVerify]_vars

NextIdentity ==
    \/ FullIdentityFromPEMCall /\ UNCHANGED <<verifyVars, tlsVars, authVars, mineVars, svVars, noiseVars, xqVars>>
    \/ LoadCall /\ UNCHANGED <<verifyVars, tlsVars, authVars, mineVars, svVars, noiseVars, xqVars>>
    \/ CreateCall /\ UNCHANGED <<verifyVars, tlsVars, authVars, mineVars, svVars, noiseVars, xqVars>>
    \/ NewFullIdentityCall /\ UNCHANGED <<verifyVars, tlsVars, authVars, mineVars, svVars, noiseVars, xqVars>>
    \/ IdentityReturn /\ UNCHANGED <<verifyVars, tlsVars, authVars, mineVars, svVars, noiseVars, xqVars>>

SpecIdentity == Init /\ [][NextIdentity]_vars

NextTLS ==
    \/ ServerOptionCall /\ UNCHANGED <<verifyVars, idVars, authVars, mineVars, svVars, noiseVars, xqVars>>
    \/ DialOptionCall /\ UNCHANGED <<verifyVars, idVars, authVars, mineVars, svVars, noiseVars, xqVars>>
    \/ PeerHandshake /\ UNCHANGED <<verifyVars, idVars, authVars, mineVars, svVars, noiseVars, xqVars>>
    \/ PeerIdentityFromPeerCall /\ UNCHANGED <<verifyVars, idVars, authVars, mineVars, svVars, noiseVars, xqVars>>
    \/ ConnectionDone /\ UNCHANGED <<verifyVars, idVars, authVars, mineVars, svVars, noiseVars, xqVars>>

SpecTLS == Init /\ [][NextTLS]_vars

NextAuth ==
    \/ AuthCreate /\ UNCHANGED <<verifyVars, idVars, tlsVars, mineVars, svVars, noiseVars, xqVars>>
    \/ (\E c \in Claimers : ClaimStart(c))
         /\ UNCHANGED <<verifyVars, idVars, tlsVars, mineVars, svVars, noiseVars, xqVars>>
    \/ (\E c \in Claimers : ClaimEnter(c))
         /\ UNCHANGED <<verifyVars, idVars, tlsVars, mineVars, svVars, noiseVars, xqVars>>
    \/ (\E c \in Claimers : ClaimCheck(c))
         /\ UNCHANGED <<verifyVars, idVars, tlsVars, mineVars, svVars, noiseVars, xqVars>>
    \/ (\E c \in Claimers : ClaimSet(c))
         /\ UNCHANGED <<verifyVars, idVars, tlsVars, mineVars, svVars, noiseVars, xqVars>>

SpecAuth == Init /\ [][NextAuth]_vars

NextMine ==
    \/ MineStart /\ UNCHANGED <<verifyVars, idVars, tlsVars, authVars, svVars, noiseVars, xqVars>>
    \/ (\E w \in Workers : WorkerAttempt(w))
         /\ UNCHANGED <<verifyVars, idVars, tlsVars, authVars, svVars, noiseVars, xqVars>>
    \/ (\E w \in Workers : WorkerSeesCancel(w))
         /\ UNCHANGED <<verifyVars, idVars, tlsVars, authVars, svVars, noiseVars, xqVars>>
    \/ ExternalCancel /\ UNCHANGED <<verifyVars, idVars, tlsVars, authVars, svVars, noiseVars, xqVars>>
    \/ NewFullIdentityReturn /\ UNCHANGED <<verifyVars, idVars, tlsVars, authVars, svVars, noiseVars, xqVars>>

\* the workers are goroutines and the caller waits in a select: each keeps
\* being scheduled
FairMine ==
    /\ \A w \in Workers : WF_mineVars(WorkerSeesCancel(w))
    /\ WF_mineVars(NewFullIdentityReturn)

SpecMine == Init /\ [][NextMine]_vars /\ FairMine

NextSave ==
    \/ SaveCall /\ UNCHANGED <<verifyVars, idVars, tlsVars, authVars, mineVars, noiseVars, xqVars>>
    \/ SaveBackupCall /\ UNCHANGED <<verifyVars, idVars, tlsVars, authVars, mineVars, noiseVars, xqVars>>
    \/ LoadAfterSave /\ UNCHANGED <<verifyVars, idVars, tlsVars, authVars, mineVars, noiseVars, xqVars>>
    \/ SaveDone /\ UNCHANGED <<verifyVars, idVars, tlsVars, authVars, mineVars, noiseVars, xqVars>>

SpecSave == Init /\ [][NextSave]_vars

NextNoise ==
    \/ CtxDone /\ UNCHANGED <<verifyVars, idVars, tlsVars, authVars, mineVars, svVars, xqVars>>
    \/ ClientHandshakeStart /\ UNCHANGED <<verifyVars, idVars, tlsVars, authVars, mineVars, svVars, xqVars>>
    \/ HandshakeReturns /\ UNCHANGED <<verifyVars, idVars, tlsVars, authVars, mineVars, svVars, xqVars>>
    \/ WorkerSend /\ UNCHANGED <<verifyVars, idVars, tlsVars, authVars, mineVars, svVars, xqVars>>
    \/ ClientSelect /\ UNCHANGED <<verifyVars, idVars, tlsVars, authVars, mineVars, svVars, xqVars>>
    \/ ServerHandshakeCall /\ UNCHANGED <<verifyVars, idVars, tlsVars, authVars, mineVars, svVars, xqVars>>

\* the goroutine and the caller of ClientHandshake are both scheduled
FairNoise ==
    /\ WF_noiseVars(WorkerSend)
    /\ WF_noiseVars(ClientSelect)

SpecNoise == Init /\ [][NextNoise]_vars /\ FairNoise

NextXorQueue ==
    \/ NewXorQueueCall /\ UNCHANGED <<verifyVars, idVars, tlsVars, authVars, mineVars, svVars, noiseVars>>
    \/ InsertCall /\ UNCHANGED <<verifyVars, idVars, tlsVars, authVars, mineVars, svVars, noiseVars>>
    \/ PopClosestCall /\ UNCHANGED <<verifyVars, idVars, tlsVars, authVars, mineVars, svVars, noiseVars>>
    \/ ResizeCall /\ UNCHANGED <<verifyVars, idVars, tlsVars, authVars, mineVars, svVars, noiseVars>>

SpecXorQueue == Init /\ [][NextXorQueue]_vars

(***************************************************************************)
(* Properties of the chain verifier.                                       *)
(***************************************************************************)
\* the failures of a group that one check recorded
FailuresOf(group, errFmt) == SelectSeq(group, LAMBDA f : f.fmt = errFmt)

IdentChainOf(opts) == <<opts.ident.Leaf, opts.ident.CA>> \o opts.ident.RestChain
CAChainOf(opts) == <<opts.ca.Cert>> \o opts.ca.RestChain

\* the positions i whose certificate is not signed by the next one
BadPairs(chain) ==
    {i \in 1..(Len(chain) - 1) : ~CheckSignatureFrom(chain[i], chain[i + 1])}

\* C6: the identity-contains-CA check records a failure exactly when the
\* identity's chain after its leaf, [ident.CA, ...ident.RestChain], differs
\* from the CA's chain, [ca.Cert, ...ca.RestChain], in length or at a position.
C6_ContainsCheckDetectsEveryDifference ==
    verifyState = "done" =>
        LET identTail == RestChainRaw(Tail(IdentChainOf(verifyOpts)))
            caChain   == RestChainRaw(CAChainOf(verifyOpts))
        IN  (FailuresOf(verifyErrGroup, FmtContains) # <<>>) <=> (identTail # caChain)

\* C7: once the CA and the identity are loaded, cmdVerify runs all three
\* checks in order whatever the earlier ones record; it returns nil iff none
\* of the three records a failure, and the group holds the failures of every
\* failing check.
C7_AllChecksRunResultIsConjunction ==
    verifyState = "done" =>
        LET alone(c) == RunCheck(c, verifyOpts, <<>>) IN
        /\ verifyRan = <<FmtContains, FmtIdent, FmtCA>>
        /\ verifyErr <=> (\E n \in 1..3 : alone(checks[n]) # <<>>)
        /\ verifyErrGroup = alone(FmtContains) \o alone(FmtIdent) \o alone(FmtCA)

\* C7 witness: the first check fails, the second passes, the third fails,
\* and both failures are in the returned group.
C7_Witness ==
    /\ verifyState = "done"
    /\ FailuresOf(verifyErrGroup, FmtContains) # <<>>
    /\ FailuresOf(verifyErrGroup, FmtIdent) = <<>>
    /\ FailuresOf(verifyErrGroup, FmtCA) # <<>>
    /\ verifyErr

\* C8: a chain validity walk records one failure per adjacent pair whose
\* signature does not verify.
C8_VerifyChainRecordsEveryBadPair ==
    verifyState = "done" =>
        /\ Len(FailuresOf(verifyErrGroup, FmtIdent))
              = Cardinality(BadPairs(IdentChainOf(verifyOpts)))
        /\ Len(FailuresOf(verifyErrGroup, FmtCA))
              = Cardinality(BadPairs(CAChainOf(verifyOpts)))

\* a chain is valid: each certificate is signed by the next one and the last
\* one is a self-signed root
ValidToSelfSignedRoot(chain) ==
    /\ BadPairs(chain) = {}
    /\ CheckSignatureFrom(chain[Len(chain)], chain[Len(chain)])

\* C9: the verify command reports no failure for the identity chain, or for
\* the CA chain, only if each certificate is signed by the next one and the
\* last certificate is a self-signed root.
C9_AcceptedChainsEndInSelfSignedRoot ==
    verifyState = "done" =>
        /\ FailuresOf(verifyErrGroup, FmtIdent) = <<>>
              => ValidToSelfSignedRoot(IdentChainOf(verifyOpts))
        /\ FailuresOf(verifyErrGroup, FmtCA) = <<>>
              => ValidToSelfSignedRoot(CAChainOf(verifyOpts))

(***************************************************************************)
(* Properties of the identity model.                                       *)
(***************************************************************************)
Returned == idOp # "idle" /\ idRet.fi # NilIdentity

IDIsDerivedFromCA(fi) ==
    LET d == NodeIDFromKey(fi.CA.PublicKey) IN d.err = "nil" /\ fi.ID = d.id

LoadedChain ==
    IF idOp = "Load" THEN DecodeAndParseChainPEM(idIn.files[DefaultCertPath]).chain
    ELSE [n \in 1..Len(idIn.ders) |-> ParseCertificate(idIn.ders[n]).cert]

ChainDecoded == \A n \in 1..Len(idIn.ders) : IsCertDER(idIn.ders[n])

KeyParses ==
    /\ Len(idIn.kders) > 0
    /\ \E k \in ECDSAKeys : idIn.kders[1] = MarshalECPrivateKey(k)

\* the identity bound from the decoded chain: Leaf = chain[0], CA = chain[1],
\* RestChain = chain[2:] in order, ID = NodeIDFromKey(chain[1].PublicKey)
BoundFromChain ==
    /\ idRet.err = {}
    /\ idRet.fi # NilIdentity
    /\ idRet.fi.Leaf.Raw = idIn.ders[1]
    /\ idRet.fi.CA.Raw = idIn.ders[2]
    /\ RestChainRaw(idRet.fi.RestChain) = SubSeq(idIn.ders, 3, Len(idIn.ders))
    /\ idRet.fi.ID = NodeIDFromKey(LoadedChain[2].PublicKey).id

ChainLengthError == idRet.fi = NilIdentity /\ idRet.err = {"ChainLength"}

\* C10 as stated: for a decoded chain of length n, n < 2 gives a ChainLength
\* error and no identity whatever the key bytes; n >= 2 with a key that parses
\* gives the identity bound from the chain.
C10_FromPEMLengthAndBinding ==
    (idOp = "FullIdentityFromPEM" /\ ChainDecoded) =>
        /\ Len(idIn.ders) < 2 => ChainLengthError
        /\ (Len(idIn.ders) >= 2 /\ KeyParses) => BoundFromChain

\* C10 amended: as stated, but n >= 2 with a key that parses gives the
\* identity only when chain[1] holds a key of the supported (ECDSA) type;
\* otherwise it gives the NodeID error and no identity.
C10_FromPEMBindingWhenCAKeySupported ==
    (idOp = "FullIdentityFromPEM" /\ ChainDecoded) =>
        /\ Len(idIn.ders) < 2 => ChainLengthError
        /\ (Len(idIn.ders) >= 2 /\ KeyParses) =>
              IF LoadedChain[2].PublicKey \in ECDSAKeys
              THEN BoundFromChain
              ELSE idRet.fi = NilIdentity /\ idRet.err = {"ErrNodeID"}

\* C10 witness: a chain of three certificates and a key that parses give an
\* identity with a RestChain.
C10_Witness ==
    /\ idOp = "FullIdentityFromPEM"
    /\ ChainDecoded /\ KeyParses
    /\ Len(idIn.ders) = 3
    /\ BoundFromChain
    /\ Len(idRet.fi.RestChain) = 1

\* C10 witness: a chain of one certificate and a key that does not parse
C10_WitnessShort ==
    /\ idOp = "FullIdentityFromPEM"
    /\ ChainDecoded /\ ~KeyParses
    /\ Len(idIn.ders) = 1
    /\ ChainLengthError

(***************************************************************************)
(* Properties of the verification pipeline.                                *)
(***************************************************************************)
\* the presented chain, parsed
PresentedChain == [n \in 1..Len(tlsChain) |-> ParseCertificate(tlsChain[n]).cert]

\* the outcomes of the pinning check in the handshake, if it ran
PinOutcomes == {tlsRan[n].out : n \in {m \in 1..Len(tlsRan) : tlsRan[m].fn = "verifyIdentity"}}

\* C1: in the pipeline of DialOption(id): for a non-zero id the pinning check
\* fails when the NodeID derived from the key of parsedChains[0][1] differs
\* from id and passes only when it is equal; for the zero id it passes for
\* every chain, whatever the chain holds.
C1_PinningCheck ==
    (tlsState = "verified" /\ tlsIn.role = "client") =>
        \A out \in PinOutcomes :
            IF tlsIn.id = ZeroID THEN out = "nil"
            ELSE Len(tlsChain) >= 2 =>
                   LET d == NodeIDFromKey(PresentedChain[2].PublicKey)
                   IN  (out = "nil") <=> (d.err = "nil" /\ d.id = tlsIn.id)

\* C1 witness: a pinned dial to a peer whose chain is valid and whose CA has
\* another NodeID: the pinning check ran and failed the handshake.
C1_Witness ==
    /\ tlsState = "verified"
    /\ tlsIn.role = "client"
    /\ tlsIn.id # ZeroID
    /\ Len(tlsChain) >= 2
    /\ PinOutcomes = {"peer ID did not match requested ID"}
    /\ tlsErr = "peer ID did not match requested ID"

\* the functions of a run log
RanFuncs == [n \in 1..Len(tlsRan) |-> PCVFunc(tlsRan[n].fn, tlsRan[n].id)]

\* C2: in the server pipeline and in the client pipeline, chain-signature
\* validation is the first function and the custom functions follow in the
\* order supplied; the functions run in that order, the first that fails
\* ends verification with its error, and none runs after a failure.
C2_PipelineOrderFirstFailureAborts ==
    LET supplied == IF tlsIn.role = "server" THEN tlsIn.pcvFuncs
                    ELSE <<PCVFunc("verifyIdentity", tlsIn.id)>>
    IN
    /\ tlsState \in {"configured", "verified"} =>
          /\ tlsFuncs[1].fn = "VerifyPeerCertChains"
          /\ Tail(tlsFuncs) = supplied
    /\ tlsState = "verified" =>
          /\ Len(tlsRan) >= 1
          /\ RanFuncs = SubSeq(tlsFuncs, 1, Len(tlsRan))
          /\ \A n \in 1..(Len(tlsRan) - 1) : tlsRan[n].out = "nil"
          /\ tlsErr = tlsRan[Len(tlsRan)].out
          /\ tlsErr = "nil" => Len(tlsRan) = Len(tlsFuncs)

\* C2 witness: a server with two custom functions whose first one fails on
\* a valid chain: two functions ran, the second custom function did not.
C2_Witness ==
    /\ tlsState = "verified"
    /\ tlsIn.role = "server"
    /\ Len(tlsIn.pcvFuncs) = 2
    /\ Len(tlsRan) = 2
    /\ tlsRan[1].out = "nil"
    /\ tlsErr = "rejected"


(***************************************************************************)
(* The authorization database.                                             *)
(***************************************************************************)
\* the claim attempts made on token t, those that succeeded, those refused
ClaimsOn(t) == {c \in Claimers : authClaims[c].pc # "idle" /\ authClaims[c].token = t}
Succeeded(t) == {c \in ClaimsOn(t) : authClaims[c].result = "ok"}
Refused(t) == {c \in ClaimsOn(t) : authClaims[c].result = "AlreadyClaimed"}
AllDone(t) == ClaimsOn(t) # {} /\ \A c \in ClaimsOn(t) : authClaims[c].pc = "done"

\* at most one attempt on a token succeeds; the token is claimed exactly
\* when one did; once all the attempts on it have returned, exactly one
\* succeeded and every other one got AlreadyClaimed
ExactlyOnceClaim ==
    \A t \in AllTokens :
       /\ Cardinality(Succeeded(t)) <= 1
       /\ IsClaimed(t) <=> Succeeded(t) # {}
       /\ AllDone(t) => /\ Cardinality(Succeeded(t)) = 1
                        /\ Refused(t) = ClaimsOn(t) \ Succeeded(t)

\* tokens are not removed and a claimed token does not become open again
ClaimedStaysClaimed ==
    \A t \in AllTokens : IsClaimed(t) => (t \in AllTokens' /\ IsClaimed(t)')

\* C4: for a token that exists, under every interleaving of concurrent Claim
\* attempts, exactly one attempt succeeds and moves the token from open to
\* claimed, every other attempt fails with AlreadyClaimed, and a claimed
\* token never returns to open.
C4_ClaimExactlyOnce == [](ExactlyOnceClaim) /\ [][ClaimedStaysClaimed]_vars

\* all three attempts were made on one token and have returned: one
\* succeeded, two were refused
C4_Witness ==
    \E t \in AllTokens :
       /\ AllDone(t)
       /\ Cardinality(ClaimsOn(t)) = MaxClaims
       /\ Cardinality(Succeeded(t)) = 1
       /\ Cardinality(Refused(t)) = MaxClaims - 1
       /\ IsClaimed(t)

(***************************************************************************)
(* The difficulty miner under NewFullIdentity.                             *)
(***************************************************************************)
AllWorkersStopped == \A w \in Workers : mineWorkers[w] = "stopped"

\* what the call returned, by the event that came first: after a success,
\* no cancellation error, and an identity under the root that was published;
\* after a cancellation, the cancellation error and no identity
MiningOutcome ==
    /\ Len(mineSlot) <= 1
    /\ (mineFirst = "success") <=> (mineSlot # <<>>)
    /\ mineRet # None =>
         /\ mineFirst # "none"
         /\ mineFirst = "success" =>
                /\ "Cancelled" \notin mineRet.err
                /\ mineRet.err = {} =>
                      /\ mineRet.fi # NilIdentity
                      /\ mineRet.fi.CA = Cert(mineSlot[1], mineSlot[1])
                      /\ mineRet.fi.ID = NodeIDFromKey(mineSlot[1]).id
                      /\ MeetsDifficulty(mineRet.fi.ID, mineCall.difficulty)
         /\ mineFirst = "cancel" =>
                /\ mineRet.err = {"Cancelled"}
                /\ mineRet.fi = NilIdentity

\* the published root, the first event and the returned value are set once
MiningSetOnce ==
    /\ mineSlot # <<>> => mineSlot' = mineSlot
    /\ mineFirst # "none" => mineFirst' = mineFirst
    /\ mineRet # None => mineRet' = mineRet

\* C5: a NewFullIdentity call with concurrency >= 1 has one outcome: the CA
\* published by the first worker to succeed, never replaced by a later
\* worker's success, or, when the caller's cancellation comes before any
\* success, a cancellation error and no CA; in both cases every worker
\* eventually stops.
C5_FirstSuccessOrCancel ==
    /\ [](MiningOutcome)
    /\ [][MiningSetOnce]_vars
    /\ (mineFirst # "none") ~> AllWorkersStopped

\* two workers; the call returned an identity under the published root and
\* both workers have stopped
C5_Witness ==
    /\ mineCall # None
    /\ mineCall.concurrency = MaxWorkers
    /\ mineRet # None
    /\ mineFirst = "success"
    /\ mineRet.err = {}
    /\ mineRet.fi.CA = Cert(mineSlot[1], mineSlot[1])
    /\ AllWorkersStopped

\* the caller cancelled before any success: the cancellation error, no
\* identity, the slot empty, the workers stopped
C5_WitnessCancelled ==
    /\ mineRet # None
    /\ mineFirst = "cancel"
    /\ mineRet.err = {"Cancelled"}
    /\ mineSlot = <<>>
    /\ AllWorkersStopped

(***************************************************************************)
(* Short chains: fewer than two certificates presented.                    *)
(***************************************************************************)
\* the outcomes of the pinning checks that ran with a non-zero id
NonZeroPinOutcomes ==
    {tlsRan[n].out : n \in {m \in 1..Len(tlsRan) :
                              tlsRan[m].fn = "verifyIdentity" /\ tlsRan[m].id # ZeroID}}

\* C11: when the presented chain holds fewer than 2 certificates, the pinning
\* check with a non-zero id and PeerIdentityFromPeer both return the
\* invalid-chain error, and neither indexes past the end of the chain.
C11_ShortChainIsInvalidChainError ==
    (tlsState = "verified" /\ Len(tlsChain) < 2) =>
        /\ \A out \in NonZeroPinOutcomes : out = "invalid certificate chain"
        /\ tlsPeer # None => /\ tlsPeer.err = "invalid certificate chain"
                             /\ tlsPeer.peer = None

\* what PeerIdentityFromPeer alone does on a short chain
C11_FromPeerRejectsShortChain ==
    (tlsState = "verified" /\ Len(tlsChain) < 2 /\ tlsPeer # None) =>
        /\ tlsPeer.err = "invalid certificate chain"
        /\ tlsPeer.peer = None

\* PeerIdentityFromPeer was called on a connection with a one-certificate chain
C11_WitnessFromPeer ==
    /\ tlsState = "verified"
    /\ Len(tlsChain) = 1
    /\ tlsPeer # None

(***************************************************************************)
(* Persistence: the round trip, the errors of Save, and SaveBackup.        *)
(***************************************************************************)
BothPathsSet == svIn.ic.CertPath # EmptyPath /\ svIn.ic.KeyPath # EmptyPath

\* Load returned an identity equal to the one saved: the same ID, Leaf, CA,
\* RestChain (in order) and key
LoadedWhatWasSaved ==
    /\ svLoad.err = "nil"
    /\ svLoad.fi # NilIdentity
    /\ svLoad.fi.ID = svIn.fi.ID
    /\ svLoad.fi.Leaf = svIn.fi.Leaf
    /\ svLoad.fi.CA = svIn.fi.CA
    /\ svLoad.fi.RestChain = svIn.fi.RestChain
    /\ svLoad.fi.Key = svIn.fi.Key

\* C12 as stated: for every Config with non-empty CertPath and KeyPath, a
\* Save(fi) that returns nil followed by Load on the same Config returns an
\* identity with the same ID, Leaf, CA, RestChain and key as fi.
C12_SaveLoadRoundTrip ==
    (svState = "loaded" /\ BothPathsSet /\ svErr = {}) => LoadedWhatWasSaved

\* C12: for every Config with non-empty CertPath and KeyPath that are two
\* different paths, a Save(fi) that returns nil followed by Load on the same
\* Config returns an identity with the same ID, Leaf, CA, RestChain (same
\* order) and key as fi; with CertPath equal to KeyPath, Load fails.
C12_SaveLoadRoundTripDistinctPaths ==
    (svState = "loaded" /\ BothPathsSet /\ svErr = {}) =>
        IF svIn.ic.CertPath # svIn.ic.KeyPath
        THEN LoadedWhatWasSaved
        ELSE svLoad.err # "nil" /\ svLoad.fi = NilIdentity

\* an identity with a RestChain was saved at two paths and loaded back
C12_Witness ==
    /\ svState = "loaded"
    /\ BothPathsSet
    /\ svIn.ic.CertPath # svIn.ic.KeyPath
    /\ svErr = {}
    /\ Len(svIn.fi.RestChain) >= 1
    /\ LoadedWhatWasSaved

\* the failures of the steps of one path, as Save names them
ChainPathFailures == {"WriteChain", "writeChainData"}
KeyPathFailures == {"WriteKey", "writeKeyData"}
ChainPathFailed == svIn.env.chainEnc # "ok" \/ svIn.env.chainWrite
KeyPathFailed == svIn.env.keyEnc \/ svIn.env.keyWrite

\* C13: Save returns nil only when both the chain write and the key write
\* succeeded; when a step fails the write to the other path is still made,
\* and the returned error includes the failure of every path whose write
\* failed, for every combination of encoding and file-write failures.
C13_SaveReportsEveryFailedPath ==
    (svState = "saved" /\ BothPathsSet /\ svIn.ic.CertPath # svIn.ic.KeyPath) =>
        /\ svErr = {} <=> (~ChainPathFailed /\ ~KeyPathFailed)
        /\ ~svIn.env.chainWrite =>
              svFiles[svIn.ic.CertPath] # svIn.before[svIn.ic.CertPath]
        /\ ~svIn.env.keyWrite =>
              svFiles[svIn.ic.KeyPath] # svIn.before[svIn.ic.KeyPath]
        /\ ChainPathFailed => svErr \cap ChainPathFailures # {}
        /\ KeyPathFailed => svErr \cap KeyPathFailures # {}

\* what holds of Save's error: nil exactly when no step failed
C13_NilOnlyWhenNothingFailed ==
    (svState = "saved" /\ BothPathsSet) =>
        (svErr = {} <=> (~ChainPathFailed /\ ~KeyPathFailed))

\* the path SaveBackup writes
BackupPathOfCall == backupPath(svIn.ic.CertPath, svIn.now)

\* C16: SaveBackup(fi) writes only the certificate chain, to the path formed
\* from CertPath by putting '.<unix timestamp>' before the file extension;
\* the primary certificate file and every key file are left as they were.
C16_SaveBackupWritesOnlyTheBackup ==
    svState = "backedup" =>
        /\ Len(BackupPathOfCall) = Len(svIn.ic.CertPath) + 1
        /\ LET at == Len(TrimSuffix(svIn.ic.CertPath, Ext(svIn.ic.CertPath))) + 1
           IN  /\ BackupPathOfCall[at] = NumSeg(Itoa(svIn.now))
               /\ SubSeq(BackupPathOfCall, 1, at - 1)
                     = SubSeq(svIn.ic.CertPath, 1, at - 1)
               /\ SubSeq(BackupPathOfCall, at + 1, Len(BackupPathOfCall))
                     = Ext(svIn.ic.CertPath)
        /\ \A p \in SavePaths \ {BackupPathOfCall} : svFiles[p] = svIn.before[p]
        /\ svFiles[svIn.ic.CertPath] = svIn.before[svIn.ic.CertPath]
        /\ svFiles[svIn.ic.KeyPath] = svIn.before[svIn.ic.KeyPath]
        /\ svErr = {} =>
              svFiles[BackupPathOfCall]
                 = EncodeChain(Concat(<<svIn.fi.Leaf, svIn.fi.CA>>, svIn.fi.RestChain))
        /\ svErr \cap KeyPathFailures = {}

\* a backup of an identity written next to a primary certificate file and a
\* key file that exist: the backup holds the chain, the two are as before
C16_Witness ==
    /\ svState = "backedup"
    /\ svIn.ic = DefaultConfig
    /\ svIn.now = 12
    /\ svErr = {}
    /\ BackupPathOfCall = <<Seg("identity"), NumSeg(<<1, 2>>), Seg("cert")>>
    /\ svIn.before[DefaultCertPath] # NoFile
    /\ svIn.before[DefaultKeyPath] # NoFile
    /\ svIn.before[BackupPathOfCall] = NoFile
    /\ svFiles[BackupPathOfCall] # NoFile
    /\ svFiles[BackupPathOfCall] # svIn.before[DefaultCertPath]
    /\ svFiles[DefaultCertPath] = svIn.before[DefaultCertPath]
    /\ svFiles[DefaultKeyPath] = svIn.before[DefaultKeyPath]

(***************************************************************************)
(* The noise credentials.                                                  *)
(***************************************************************************)
\* the context was done after ClientHandshake started and before the
\* handshake delivered its result
CancelledDuringHandshake ==
    \E i \in 1..(Len(hsOrder) - 1) : hsOrder[i] = "start" /\ hsOrder[i + 1] = "cancel"

\* C14: when the context is cancelled while the client handshake is still in
\* progress, ClientHandshake returns the cancellation error and no
\* connection, and by the time it returns the handshake is aborted and
\* rawConn is released.
C14_CancelAbortsAndReleases ==
    (hsMain = "returned" /\ CancelledDuringHandshake) =>
        /\ hsRet = ClientCancelled(hsCtx)
        /\ hsWorker # "handshaking"
        /\ rawConn = "closed"

\* of the handshake's result and the cancellation, the one that came first
FirstEvent ==
    LET at == {i \in 1..Len(hsOrder) : hsOrder[i] # "start"}
    IN  hsOrder[CHOOSE i \in at : \A j \in at : i <= j]

\* C15: in ClientHandshake the first of the two events decides the outcome:
\* the handshake's result when the handshake completed first, the
\* cancellation error when the context was cancelled first; a cancellation
\* after the handshake completed never makes the call return the
\* cancellation error.
C15_FirstEventDecides ==
    hsMain = "returned" =>
        IF FirstEvent = "handshake"
        THEN hsRet = ClientResult(hsOutcome)
        ELSE hsRet = ClientCancelled(hsCtx)

\* what does hold of the race: the call returns a result of an event that
\* has happened, and the event alone decides when the other has not happened
C15_ReturnsAnEventThatHappened ==
    hsMain = "returned" =>
        /\ \/ hsOutcome # "pending" /\ hsRet = ClientResult(hsOutcome)
           \/ hsCtx # "nil" /\ hsRet = ClientCancelled(hsCtx)
        /\ hsCtx = "nil" => hsRet = ClientResult(hsOutcome)
        /\ hsSends = 0 => hsRet = ClientCancelled(hsCtx)

\* a return is a connection with no error, or an error
ConnOrError(r) == (r.conn # NilConn /\ r.err = "nil") \/ r.err # "nil"

\* C18: ClientHandshake and ServerHandshake take the same handshake outcomes
\* for success, and neither returns a nil connection with a nil error: for
\* nil, AlertNoAlert and any other error, each returns a connection with no
\* error, or an error.
C18_SameSuccessAndNeverNilNil ==
    /\ hsRet # None => ConnOrError(hsRet)
    /\ srvRet # None =>
          /\ ConnOrError(srvRet)
          /\ (srvRet.conn # NilConn) <=> (ClientResult(srvIn.err).conn # NilConn)

\* what holds of the client alone
C18_ClientNeverNilNil == hsRet # None => ConnOrError(hsRet)

\* C19: the goroutine started by ClientHandshake sends the handshake result
\* exactly once, and the send never blocks, also when ClientHandshake has
\* returned through cancellation and nothing receives: once
\* conn.Handshake() has returned, the goroutine terminates.
C19_SingleSendNeverBlocks ==
    /\ [](/\ hsSends <= 1
          /\ Len(errChannel) <= 1
          /\ hsWorker = "send" => (hsSends = 0 /\ CanSend(errChannel))
          /\ hsWorker = "done" => hsSends = 1)
    /\ (hsWorker = "send") ~> (hsWorker = "done")

\* ClientHandshake returned through cancellation; the goroutine has sent its
\* result into the buffer, where it stays, and has terminated
C19_Witness ==
    /\ hsMain = "returned"
    /\ hsRet = ClientCancelled(hsCtx)
    /\ hsCtx # "nil"
    /\ hsWorker = "done"
    /\ hsSends = 1
    /\ Len(errChannel) = 1

(***************************************************************************)
(* The XorQueue.                                                           *)
(***************************************************************************)
\* a node of a queue with its stored distance, without its heap index
NodeOf(it) == [value |-> it.value, priority |-> it.priority]
NodesOf(pq) == {NodeOf(pq[n]) : n \in 1..Len(pq)}

\* how many times a node with its distance is in a queue
CountIn(pq, nd) == Cardinality({n \in 1..Len(pq) : NodeOf(pq[n]) = nd})

\* how many nodes of a queue are closer than distance d
NumCloser(pq, d) == Cardinality({n \in 1..Len(pq) : pq[n].priority < d})

Min(a, b) == IF a < b THEN a ELSE b

\* the closest kept nodes of before: after is a part of before, it holds
\* kept nodes, and no node left out is closer than a node kept
IsClosestPart(after, before, kept) ==
    /\ Len(after) = kept
    /\ \A nd \in NodesOf(after) : CountIn(after, nd) <= CountIn(before, nd)
    /\ \A n \in 1..Len(after) :
          NumCloser(before, after[n].priority) = NumCloser(after, after[n].priority)

\* C17: every PopClosest on a queue that is not empty removes and returns a
\* node whose stored distance is the least in the queue, and Resize(k)
\* leaves exactly the min(k, Len) nodes with the smallest distances.
C17_PopsClosestResizeKeepsClosest ==
    /\ (xqState = "ready" /\ xqOp # None /\ xqOp.op = "PopClosest") =>
          /\ \A n \in 1..Len(xqOp.before) :
                xqOp.item.priority <= xqOp.before[n].priority
          /\ Len(xq) = Len(xqOp.before) - 1
          /\ \A nd \in NodesOf(xqOp.before) :
                CountIn(xq, nd) = CountIn(xqOp.before, nd)
                                     - (IF nd = NodeOf(xqOp.item) THEN 1 ELSE 0)
    /\ (xqState = "ready" /\ xqOp # None /\ xqOp.op = "Resize") =>
          IsClosestPart(xq, xqOp.before, Min(xqOp.k, Len(xqOp.before)))

\* a queue of three nodes at three distances popped, the closest returned
C17_Witness ==
    /\ xqState = "ready"
    /\ xqOp # None
    /\ xqOp.op = "PopClosest"
    /\ Len(xqOp.before) = 3
    /\ Cardinality({xqOp.before[n].priority : n \in 1..3}) = 3
    /\ xqOp.item.priority < xq[1].priority
    /\ xqOp.item.priority < xq[2].priority

\* a queue of three nodes resized to two: the farthest is dropped
C17_WitnessResize ==
    /\ xqState = "ready"
    /\ xqOp # None
    /\ xqOp.op = "Resize"
    /\ xqOp.k = 2
    /\ Len(xqOp.before) = 3
    /\ Len(xq) = 2
    /\ \E n \in 1..3 : /\ NodeOf(xqOp.before[n]) \notin NodesOf(xq)
                       /\ \A m \in 1..2 : xq[m].priority < xqOp.before[n].priority

====
